---------------------------- MODULE Spec2Model ----------------------------
(***************************************************************************)
(* Siberite: the GET command family of the controller (controller/get.go)  *)
(* over the persistent FIFO queue (queue/queue.go).                        *)
(*                                                                         *)
(* Strings are sequences of one-character strings, so that the parser's    *)
(* regexp, split and trim are computed character by character.  A handler  *)
(* runs as one step: every queue operation it calls holds the queue's lock *)
(* for the whole operation, currentItem belongs to the session alone, and  *)
(* OpenTransactions is changed by an atomic add.                           *)
(***************************************************************************)
EXTENDS Integers, Sequences, FiniteSets, TLC

(***************************************************************************)
(* Bounds                                                                  *)
(***************************************************************************)
\* Most items enqueued in a run, all queues together (a uint64 tail stays far
\* from 2^64).
MaxItems == 2

\* Most tokens after the queue name in a GET argument given to the parser.
MaxTokens == 3

\* How many times a run flushes a queue.
MaxFlushes == 1

\* The client connections.
Sessions == {1, 2}

\* Payloads: the empty payload and a one-byte payload.
Values == {<<>>, <<"x">>}

\* The queue names clients use.
QueueNames == {<<"a">>, <<"b">>}

(***************************************************************************)
(* Strings                                                                 *)
(***************************************************************************)
S_open == <<"o", "p", "e", "n">>

S_close == <<"c", "l", "o", "s", "e">>

S_abort == <<"a", "b", "o", "r", "t">>

S_peek == <<"p", "e", "e", "k">>

S_timeout == <<"t", "=", "1", "0">>

S_close_open == S_close \o <<"/">> \o S_open

S_open_close == S_open \o <<"/">> \o S_close

\* strings.Contains(s, sub)
Contains(s, sub) ==
    \E i \in 1..(Len(s) - Len(sub) + 1) : SubSeq(s, i, i + Len(sub) - 1) = sub

IsDigit(ch) == ch \in {"0", "1", "2", "3", "4", "5", "6", "7", "8", "9"}

\* The index after the longest run of digits of s that starts at i.
RECURSIVE digitsEnd(_, _)
digitsEnd(s, i) ==
    IF i <= Len(s) /\ IsDigit(s[i]) THEN digitsEnd(s, i + 1) ELSE i

\* The regexp without its optional slash, `(t\=\d+)`.
timeoutRegexpNoSlash(s, i) ==
    IF i + 2 <= Len(s) /\ s[i] = "t" /\ s[i + 1] = "=" /\ IsDigit(s[i + 2])
    THEN digitsEnd(s, i + 2)
    ELSE 0

\* timeoutRegexp, `(t\=\d+)\/?`, matched at index i of s: the index after the
\* match (digits and the optional slash taken greedily), or 0 when it does not
\* match there.
timeoutRegexp(s, i) ==
    IF i + 2 <= Len(s) /\ s[i] = "t" /\ s[i + 1] = "=" /\ IsDigit(s[i + 2])
    THEN LET j == digitsEnd(s, i + 2)
         IN  IF j <= Len(s) /\ s[j] = "/" THEN j + 1 ELSE j
    ELSE 0

\* timeoutRegexp.ReplaceAllString(s, ""), scanning s from index i: the
\* leftmost matches, none overlapping, are cut out.
RECURSIVE ReplaceAllString(_, _)
ReplaceAllString(s, i) ==
    IF i > Len(s) THEN <<>>
    ELSE LET j == timeoutRegexp(s, i)
         IN  IF j > 0 THEN ReplaceAllString(s, j)
             ELSE <<s[i]>> \o ReplaceAllString(s, i + 1)

\* strings.SplitN(s, "/", 2) of an s that holds a slash: the text before the
\* first slash and the text after it.
SplitN(s) ==
    LET i == CHOOSE k \in 1..Len(s) :
                 s[k] = "/" /\ \A m \in 1..(k - 1) : s[m] # "/"
    IN  <<SubSeq(s, 1, i - 1), SubSeq(s, i + 1, Len(s))>>

\* strings.Trim(s, "/")
RECURSIVE Trim(_)
Trim(s) ==
    IF s = <<>> THEN s
    ELSE IF Head(s) = "/" THEN Trim(Tail(s))
    ELSE IF s[Len(s)] = "/" THEN Trim(SubSeq(s, 1, Len(s) - 1))
    ELSE s

\* parseGetCommand(input): input[1] is the verb, input[2] the argument (Go's
\* input[0] and input[1]).  QueueName is set from the argument as it came in
\* and replaced only when the stripped argument holds a slash.
parseGetCommand(input) ==
    LET arg == IF Contains(input[2], <<"t", "=">>)
               THEN ReplaceAllString(input[2], 1)
               ELSE input[2]
    IN  IF Contains(arg, <<"/">>)
        THEN LET tokens == SplitN(arg)
             IN  [Name |-> input[1], QueueName |-> tokens[1],
                  SubCommand |-> Trim(tokens[2])]
        ELSE [Name |-> input[1], QueueName |-> input[2], SubCommand |-> <<>>]

(***************************************************************************)
(* The queue (queue.go).  A queue is a record: head and tail (uint64), db  *)
(* (the leveldb store: a function from the keys it holds to what is stored *)
(* there) and OpenTransactions (Stats.OpenTransactions, int64).  Keys are  *)
(* the numbers that binary.BigEndian.PutUint64 encodes; the store orders   *)
(* the encoded keys as the numbers are ordered.                            *)
(*                                                                         *)
(* What is stored under a key is the value's bytes, and with them a label  *)
(* src naming the Enqueue that wrote those bytes: the queue's name, the    *)
(* ordinal of the Enqueue on that queue, and the bytes it was given.  The  *)
(* label is carried along and never read by any operation.                 *)
(*                                                                         *)
(* A store operation either succeeds or fails as a whole; the Ok arguments *)
(* say which.                                                              *)
(***************************************************************************)
NoSrc == [name |-> <<>>, seq |-> 0, value |-> <<>>]

\* &Item{nil, nil, 0}
ZeroItem == [Key |-> 0, Value |-> <<>>, src |-> NoSrc]

\* Open(name, dataDir) on a data directory that holds no store of that name:
\* head and tail 0, Stats{0}; initialize() finds no first and no last key.
Open == [head |-> 0, tail |-> 0, db |-> <<>>, OpenTransactions |-> 0]

\* db.Put(key, value)
Put(db, key, stored) ==
    [k \in (DOMAIN db) \cup {key} |-> IF k = key THEN stored ELSE db[k]]

\* db.Delete(key)
Delete(db, key) == [k \in (DOMAIN db) \ {key} |-> db[k]]

length(q) == q.tail - q.head

\* A peek that reads the newest key instead of the oldest.
peekNewest(q, getOk) ==
    IF q.tail - q.head < 1
    THEN [item |-> ZeroItem, err |-> "Queue is empty"]
    ELSE IF getOk /\ q.tail \in DOMAIN q.db
    THEN [item |-> [Key |-> q.tail, Value |-> q.db[q.tail].value,
                    src |-> q.db[q.tail].src],
          err |-> ""]
    ELSE [item |-> [Key |-> q.tail, Value |-> <<>>, src |-> NoSrc],
          err |-> "leveldb"]

\* peek(): the item under key head+1; db.Get fails on a key the store does
\* not hold.
peek(q, getOk) ==
    IF length(q) < 1
    THEN [item |-> ZeroItem, err |-> "Queue is empty"]
    ELSE LET key == q.head + 1
         IN  IF getOk /\ key \in DOMAIN q.db
             THEN [item |-> [Key |-> key, Value |-> q.db[key].value,
                             src |-> q.db[key].src],
                   err |-> ""]
             ELSE [item |-> [Key |-> key, Value |-> <<>>, src |-> NoSrc],
                   err |-> "leveldb"]

Peek(q, getOk) == peek(q, getOk)

\* An Enqueue that moves tail whether or not Put succeeded.
EnqueueCountsAnyway(q, name, value, putOk) ==
    IF putOk
    THEN [q |-> [q EXCEPT !.db = Put(@, q.tail + 1,
                                     [value |-> value,
                                      src |-> [name |-> name, seq |-> q.tail + 1,
                                               value |-> value]]),
                          !.tail = @ + 1],
          err |-> ""]
    ELSE [q |-> [q EXCEPT !.tail = @ + 1], err |-> "leveldb"]

\* Enqueue(value): written under tail+1; tail moves only when Put succeeded.
Enqueue(q, name, value, putOk) ==
    IF putOk
    THEN [q |-> [q EXCEPT !.db = Put(@, q.tail + 1,
                                     [value |-> value,
                                      src |-> [name |-> name, seq |-> q.tail + 1,
                                               value |-> value]]),
                          !.tail = @ + 1],
          err |-> ""]
    ELSE [q |-> q, err |-> "leveldb"]

\* A Dequeue that deletes the item and leaves head where it was.
DequeueHeadStays(q, getOk, delOk) ==
    LET p == peek(q, getOk)
    IN  IF p.err # "" THEN [q |-> q, item |-> p.item, err |-> p.err]
        ELSE IF delOk
        THEN [q |-> [q EXCEPT !.db = Delete(@, p.item.Key)],
              item |-> p.item, err |-> ""]
        ELSE [q |-> q, item |-> p.item, err |-> "leveldb"]

\* Dequeue(): peek, then Delete of the item's key; head moves only when
\* Delete succeeded.  The item read is returned either way.
Dequeue(q, getOk, delOk) ==
    LET p == peek(q, getOk)
    IN  IF p.err # "" THEN [q |-> q, item |-> p.item, err |-> p.err]
        ELSE IF delOk
        THEN [q |-> [q EXCEPT !.db = Delete(@, p.item.Key), !.head = @ + 1],
              item |-> p.item, err |-> ""]
        ELSE [q |-> q, item |-> p.item, err |-> "leveldb"]

\* A Prepend without the check of head.
PrependUnchecked(q, item, putOk) ==
    IF putOk
    THEN [q |-> [q EXCEPT !.db = Put(@, q.head,
                                     [value |-> item.Value, src |-> item.src]),
                          !.head = @ - 1],
          err |-> ""]
    ELSE [q |-> q, err |-> "leveldb"]

\* A Prepend that writes under the key of the item at the head.
PrependOverHead(q, item, putOk) ==
    IF q.head < 1
    THEN [q |-> q, err |-> "Queue head can not be less then zero"]
    ELSE IF putOk
    THEN [q |-> [q EXCEPT !.db = Put(@, q.head + 1,
                                     [value |-> item.Value, src |-> item.src]),
                          !.head = @ - 1],
          err |-> ""]
    ELSE [q |-> q, err |-> "leveldb"]

\* Prepend(item): item.Value written under key head; refused when head < 1.
Prepend(q, item, putOk) ==
    IF q.head < 1
    THEN [q |-> q, err |-> "Queue head can not be less then zero"]
    ELSE IF putOk
    THEN [q |-> [q EXCEPT !.db = Put(@, q.head,
                                     [value |-> item.Value, src |-> item.src]),
                          !.head = @ - 1],
          err |-> ""]
    ELSE [q |-> q, err |-> "leveldb"]

AddOpenTransactions(q, value) ==
    [q EXCEPT !.OpenTransactions = @ + value]

\* An initialize that sets tail from the last key and leaves head at 0.
initializeTailOnly(q) ==
    IF DOMAIN q.db = {} THEN q
    ELSE [q EXCEPT !.tail = CHOOSE k \in DOMAIN q.db : \A m \in DOMAIN q.db : m <= k]

\* initialize(): head is the first key of the store less one, tail its last
\* key; both are left as they are (0) on a store that holds no key.  Every
\* key is 1 or more (Enqueue writes tail+1, Prepend head >= 1), so the uint64
\* subtraction does not wrap.
initialize(q) ==
    IF DOMAIN q.db = {} THEN q
    ELSE [q EXCEPT
             !.head = (CHOOSE k \in DOMAIN q.db : \A m \in DOMAIN q.db : k <= m) - 1,
             !.tail = CHOOSE k \in DOMAIN q.db : \A m \in DOMAIN q.db : m <= k]

\* Close() and then Open(name, dataDir) on the same directory: a new Queue
\* (head and tail 0, Stats{0}) over the store as it was left, initialized.
Reopen(q) == initialize([Open EXCEPT !.db = q.db])

(***************************************************************************)
(* The controller (get.go).  A handler works on Q, the repository's queues *)
(* by name, and on c, the session's controller: currentItem and            *)
(* currentCommand (each <<>> for nil, or <<v>>), out (what the handler has *)
(* written to rw.Writer, frame by frame) and calls (a record of the queue  *)
(* operations the handler called: which, on which queue, the item passed   *)
(* or returned, the error returned).  It yields the queues and the         *)
(* controller as it leaves them, and the error it returns ("" for nil).    *)
(* io says which store operations succeed.                                 *)
(***************************************************************************)
\* repo.GetQueue(name): the one queue of that name, shared by all sessions.
GetQueue(Q, name) == Q[name]

\* c.setCurrentState(cmd, item); setCurrentState(nil, nil) with <<>>, <<>>.
setCurrentState(c, cmd, item) ==
    [c EXCEPT !.currentCommand = cmd, !.currentItem = item]

\* The VALUE header with the data block: "VALUE <queue> 0 <bytes>\r\n<data>\r\n".
ValueFrame(name, value) ==
    [frame |-> "VALUE", queue |-> name, bytes |-> Len(value), data |-> value]

\* "END\r\n"
EndFrame == [frame |-> "END", queue |-> <<>>, bytes |-> 0, data |-> <<>>]

Call(op, name, item, err) == [op |-> op, queue |-> name, item |-> item, err |-> err]

\* A get without the check of currentItem.
getUnchecked(Q, c, cmd, io) ==
    LET d == Dequeue(GetQueue(Q, cmd.QueueName), io.get, io.del)
        item == d.item
        c1 == [c EXCEPT !.out = IF Len(item.Value) > 0
                                THEN Append(@, ValueFrame(cmd.QueueName, item.Value))
                                ELSE @,
                        !.calls = Append(@, Call("Dequeue", cmd.QueueName,
                                                 item, d.err))]
    IN  IF Contains(cmd.SubCommand, S_open) /\ Len(item.Value) > 0
        THEN [Q |-> [Q EXCEPT ![cmd.QueueName] = AddOpenTransactions(d.q, 1)],
              c |-> setCurrentState(c1, <<cmd>>, <<item>>),
              err |-> ""]
        ELSE [Q |-> [Q EXCEPT ![cmd.QueueName] = d.q], c |-> c1, err |-> ""]

\* c.get(cmd)
get(Q, c, cmd, io) ==
    IF c.currentItem # <<>>
    THEN [Q |-> Q, c |-> c, err |-> "CLIENT_ERROR Close current item first"]
    ELSE LET d == Dequeue(GetQueue(Q, cmd.QueueName), io.get, io.del)
             item == d.item
             written == IF Len(item.Value) > 0
                        THEN Append(c.out, ValueFrame(cmd.QueueName, item.Value))
                        ELSE c.out
             c1 == [c EXCEPT !.out = written,
                             !.calls = Append(@, Call("Dequeue", cmd.QueueName,
                                                      item, d.err))]
         IN  IF Contains(cmd.SubCommand, S_open) /\ Len(item.Value) > 0
             THEN [Q |-> [Q EXCEPT ![cmd.QueueName] = AddOpenTransactions(d.q, 1)],
                   c |-> setCurrentState(c1, <<cmd>>, <<item>>),
                   err |-> ""]
             ELSE [Q |-> [Q EXCEPT ![cmd.QueueName] = d.q], c |-> c1, err |-> ""]

\* A getClose that puts the item back, as abort does.
getCloseRequeue(Q, c, cmd) ==
    IF c.currentItem # <<>>
    THEN [Q |-> [Q EXCEPT ![cmd.QueueName] =
                     AddOpenTransactions(
                         Prepend(GetQueue(Q, cmd.QueueName), c.currentItem[1], TRUE).q,
                         -1)],
          c |-> setCurrentState(c, <<>>, <<>>),
          err |-> ""]
    ELSE [Q |-> Q, c |-> c, err |-> ""]

\* c.getClose(cmd)
getClose(Q, c, cmd) ==
    IF c.currentItem # <<>>
    THEN [Q |-> [Q EXCEPT ![cmd.QueueName] =
                     AddOpenTransactions(GetQueue(Q, cmd.QueueName), -1)],
          c |-> setCurrentState(c, <<>>, <<>>),
          err |-> ""]
    ELSE [Q |-> Q, c |-> c, err |-> ""]

\* An abort that reports a failed Prepend and releases the item all the same.
abortReleasesOnError(Q, c, cmd, io) ==
    IF c.currentItem # <<>>
    THEN LET p == Prepend(GetQueue(Q, cmd.QueueName), c.currentItem[1], io.put)
             c1 == [c EXCEPT !.calls = Append(@, Call("Prepend", cmd.QueueName,
                                                      c.currentItem[1], p.err))]
         IN  IF p.err # ""
             THEN [Q |-> [Q EXCEPT ![cmd.QueueName] = AddOpenTransactions(@, -1)],
                   c |-> setCurrentState(c1, <<>>, <<>>),
                   err |-> "SERVER_ERROR " \o p.err]
             ELSE [Q |-> [Q EXCEPT ![cmd.QueueName] = AddOpenTransactions(p.q, -1)],
                   c |-> setCurrentState(c1, <<>>, <<>>),
                   err |-> ""]
    ELSE [Q |-> Q, c |-> c, err |-> ""]

\* An abort that goes on when Prepend fails.
abortDiscardsError(Q, c, cmd, io) ==
    IF c.currentItem # <<>>
    THEN LET p == Prepend(GetQueue(Q, cmd.QueueName), c.currentItem[1], io.put)
             c1 == [c EXCEPT !.calls = Append(@, Call("Prepend", cmd.QueueName,
                                                      c.currentItem[1], p.err))]
         IN  [Q |-> [Q EXCEPT ![cmd.QueueName] = AddOpenTransactions(p.q, -1)],
              c |-> setCurrentState(c1, <<>>, <<>>),
              err |-> ""]
    ELSE [Q |-> Q, c |-> c, err |-> ""]

\* c.abort(cmd)
abort(Q, c, cmd, io) ==
    IF c.currentItem # <<>>
    THEN LET p == Prepend(GetQueue(Q, cmd.QueueName), c.currentItem[1], io.put)
             c1 == [c EXCEPT !.calls = Append(@, Call("Prepend", cmd.QueueName,
                                                      c.currentItem[1], p.err))]
         IN  IF p.err # ""
             THEN [Q |-> Q, c |-> c1, err |-> "SERVER_ERROR " \o p.err]
             ELSE [Q |-> [Q EXCEPT ![cmd.QueueName] = AddOpenTransactions(p.q, -1)],
                   c |-> setCurrentState(c1, <<>>, <<>>),
                   err |-> ""]
    ELSE [Q |-> Q, c |-> c, err |-> ""]

\* c.getAbort(cmd)
getAbort(Q, c, cmd, io) == abort(Q, c, cmd, io)

\* c.peek(cmd) (named peekCmd: peek is the queue's)
peekCmd(Q, c, cmd, io) ==
    LET p == Peek(GetQueue(Q, cmd.QueueName), io.get)
        item == p.item
    IN  [Q |-> Q,
         c |-> [c EXCEPT !.out = IF Len(item.Value) > 0
                                 THEN Append(@, ValueFrame(cmd.QueueName, item.Value))
                                 ELSE @,
                         !.calls = Append(@, Call("Peek", cmd.QueueName, item, p.err))],
         err |-> ""]

GET == <<"g", "e", "t">>

\* The arguments clients send with GET, for one queue name.
Arguments(n) ==
    { n,
      n \o <<"/">> \o S_open,
      n \o <<"/">> \o S_close,
      n \o <<"/">> \o S_close_open,
      n \o <<"/">> \o S_abort,
      n \o <<"/">> \o S_peek,
      n \o <<"/">> \o S_open_close,
      n \o <<"/">> \o S_timeout \o <<"/">> \o S_close_open }

Inputs == { <<GET, a>> : a \in UNION { Arguments(n) : n \in QueueNames } }

\* parseGetCommand on each input clients send, computed once.
Commands == [input \in Inputs |-> parseGetCommand(input)]

\* A switch whose default case is the get of the first case.
HandleDefaultGet(Q, c, input, io) ==
    LET cmd == Commands[input]
        sub == cmd.SubCommand
        r == IF sub = S_close THEN getClose(Q, c, cmd)
             ELSE IF sub = S_close_open
             THEN LET r1 == getClose(Q, c, cmd)
                  IN  IF r1.err = "" THEN get(r1.Q, r1.c, cmd, io) ELSE r1
             ELSE IF sub = S_abort THEN getAbort(Q, c, cmd, io)
             ELSE IF sub = S_peek THEN peekCmd(Q, c, cmd, io)
             ELSE get(Q, c, cmd, io)
    IN  IF r.err # "" THEN r
        ELSE [r EXCEPT !.c.out = Append(@, EndFrame)]

\* The body of c.Get(input): the switch on the parsed sub-command, and END
\* written when the handler returned no error.
Handle(Q, c, input, io) ==
    LET cmd == Commands[input]
        sub == cmd.SubCommand
        r == IF sub = <<>> \/ sub = S_open THEN get(Q, c, cmd, io)
             ELSE IF sub = S_close THEN getClose(Q, c, cmd)
             ELSE IF sub = S_close_open
             THEN LET r1 == getClose(Q, c, cmd)
                  IN  IF r1.err = "" THEN get(r1.Q, r1.c, cmd, io) ELSE r1
             ELSE IF sub = S_abort THEN getAbort(Q, c, cmd, io)
             ELSE IF sub = S_peek THEN peekCmd(Q, c, cmd, io)
             ELSE [Q |-> Q, c |-> c, err |-> "ERROR Invalid command"]
    IN  IF r.err # "" THEN r
        ELSE [r EXCEPT !.c.out = Append(@, EndFrame)]

(***************************************************************************)
(* State                                                                   *)
(***************************************************************************)
VARIABLES
    queues,          \* the repository: queue name -> queue
    connected,       \* session -> whether its connection is up
    currentItem,     \* session -> c.currentItem: <<>> (nil) or <<item>>
    currentCommand,  \* session -> c.currentCommand: <<>> (nil) or <<cmd>>
    last,            \* the command handled last, and what it answered
    dequeued,        \* queue name -> successful Dequeues, while none was prepended
    prepended,       \* queue name -> whether a Prepend on it has succeeded
    flushes          \* how many times a queue was flushed

vars ==
    <<queues, connected, currentItem, currentCommand, last, dequeued, prepended,
      flushes>>

\* Every store operation succeeds.
AllOk == [put |-> TRUE, get |-> TRUE, del |-> TRUE]

\* last: op names the operation, input its input; held says whether the
\* session held an item when it began; out is what was written to the client,
\* calls the queue operations the handler called, err the error returned.
NoCommand ==
    [op |-> "none", input |-> <<>>, held |-> FALSE, out |-> <<>>, calls |-> <<>>,
     err |-> ""]

\* The items enqueued so far, all queues together.
Enqueued ==
    LET Sum[S \in SUBSET QueueNames] ==
            IF S = {} THEN 0
            ELSE LET n == CHOOSE m \in S : TRUE
                 IN  queues[n].tail + Sum[S \ {n}]
    IN  Sum[QueueNames]

\* The successful calls of op on queue n among calls.
Succeeded(calls, op, n) ==
    { i \in DOMAIN calls :
        calls[i].op = op /\ calls[i].queue = n /\ calls[i].err = "" }

\* The ghost counters of queue n after a handler that made these calls.
Prepended(calls, n) == prepended[n] \/ Succeeded(calls, "Prepend", n) # {}

Dequeued(calls, n) ==
    IF Prepended(calls, n) THEN 0
    ELSE dequeued[n] + Cardinality(Succeeded(calls, "Dequeue", n))

Init ==
    /\ queues = [n \in QueueNames |-> Open]
    /\ connected = [s \in Sessions |-> FALSE]
    /\ currentItem = [s \in Sessions |-> <<>>]
    /\ currentCommand = [s \in Sessions |-> <<>>]
    /\ last = NoCommand
    /\ dequeued = [n \in QueueNames |-> 0]
    /\ prepended = [n \in QueueNames |-> FALSE]
    /\ flushes = 0

\* NewSession(conn, repo): a controller with no current item.
NewSession(s) ==
    /\ ~connected[s]
    /\ connected' = [connected EXCEPT ![s] = TRUE]
    /\ currentItem' = [currentItem EXCEPT ![s] = <<>>]
    /\ currentCommand' = [currentCommand EXCEPT ![s] = <<>>]
    /\ last' = [NoCommand EXCEPT !.op = "new"]
    /\ UNCHANGED <<queues, dequeued, prepended, flushes>>

\* SET <queue> 0 0 <bytes> with its payload: q.Enqueue(value).
Set(n, value, io) ==
    /\ Enqueued < MaxItems
    /\ \E e \in {Enqueue(GetQueue(queues, n), n, value, io.put)} :
           /\ queues' = [queues EXCEPT ![n] = e.q]
           /\ last' = [NoCommand EXCEPT !.op = "set", !.input = <<n, value>>,
                                        !.err = e.err]
    /\ UNCHANGED <<connected, currentItem, currentCommand, dequeued, prepended,
                   flushes>>

\* The controller of session s as a handler finds it.
Controller(s) ==
    [currentItem |-> currentItem[s], currentCommand |-> currentCommand[s],
     out |-> <<>>, calls |-> <<>>]

\* c.Get(input) of a connected session.
Get(s, input, io) ==
    /\ connected[s]
    /\ \E r \in {Handle(queues, Controller(s), input, io)} :
           /\ queues' = r.Q
           /\ currentItem' = [currentItem EXCEPT ![s] = r.c.currentItem]
           /\ currentCommand' = [currentCommand EXCEPT ![s] = r.c.currentCommand]
           /\ last' = [op |-> "get", input |-> input,
                       held |-> currentItem[s] # <<>>,
                       out |-> r.c.out, calls |-> r.c.calls, err |-> r.err]
           /\ dequeued' = [n \in QueueNames |-> Dequeued(r.c.calls, n)]
           /\ prepended' = [n \in QueueNames |-> Prepended(r.c.calls, n)]
    /\ UNCHANGED <<connected, flushes>>

\* c.FinishSession(): the connection ends; a session that holds an item
\* aborts it on the queue it was opened on, and the controller is dropped.
FinishSession(s, io) ==
    /\ connected[s]
    /\ \E r \in {IF currentCommand[s] # <<>>
                 THEN abort(queues, Controller(s), currentCommand[s][1], io)
                 ELSE [Q |-> queues, c |-> Controller(s), err |-> ""]} :
           /\ queues' = r.Q
           /\ last' = [NoCommand EXCEPT !.op = "finish",
                                        !.held = currentItem[s] # <<>>,
                                        !.calls = r.c.calls,
                                        !.err = r.err]
           /\ dequeued' = [n \in QueueNames |-> Dequeued(r.c.calls, n)]
           /\ prepended' = [n \in QueueNames |-> Prepended(r.c.calls, n)]
    /\ connected' = [connected EXCEPT ![s] = FALSE]
    /\ currentItem' = [currentItem EXCEPT ![s] = <<>>]
    /\ currentCommand' = [currentCommand EXCEPT ![s] = <<>>]
    /\ UNCHANGED flushes

Next ==
    \/ \E s \in Sessions : NewSession(s)
    \/ \E n \in QueueNames, v \in Values : Set(n, v, AllOk)
    \/ \E s \in Sessions, input \in Inputs : Get(s, input, AllOk)
    \/ \E s \in Sessions : FinishSession(s, AllOk)

Spec == Init /\ [][Next]_vars

(***************************************************************************)
(* Properties                                                              *)
(***************************************************************************)
\* Session s holds a reservation / holds none.
Holding(s) == currentItem[s] # <<>>

Idle(s) == currentItem[s] = <<>>

\* The queue a holding session opened its item on, and the item.
HeldQueue(s) == currentCommand[s][1].QueueName

HeldItem(s) == currentItem[s][1]

\* The sub-command and the queue name an input parses to.
Sub(input) == Commands[input].SubCommand

Name(input) == Commands[input].QueueName

\* The step is c.Get(input) of session s, every store operation succeeding.
GetStep(s, input) ==
    last'.op = "get" /\ last'.input = input /\ Get(s, input, AllOk)

\* The step is c.FinishSession() of session s.
FinishStep(s) ==
    last'.op = "finish" /\ connected[s] /\ ~connected'[s]

\* What the store of q holds under the key the next Dequeue reads.
HeadEntry(q) == q.db[q.head + 1]

\* What Prepend or Enqueue stores for an item.
EntryOf(item) == [value |-> item.Value, src |-> item.src]

\* The entry is stored in some queue, or held by some session.
Stored(Q, entry) ==
    \E n \in QueueNames : \E k \in DOMAIN Q[n].db : Q[n].db[k] = entry

Held(items, entry) ==
    \E s \in Sessions : items[s] # <<>> /\ EntryOf(items[s][1]) = entry

\* C1: FIFO.  On a queue on which nothing was prepended, the i-th successful
\* Dequeue returns the item the i-th Enqueue of that queue wrote, with the
\* bytes that Enqueue was given.
C1_Fifo ==
    \A i \in DOMAIN last.calls :
        LET call == last.calls[i]
        IN  (call.op = "Dequeue" /\ call.err = "" /\ ~prepended[call.queue]) =>
                /\ call.item.src.name = call.queue
                /\ call.item.src.seq = dequeued[call.queue]
                /\ call.item.Value = call.item.src.value

\* The second item of a queue, one with a payload, has just been dequeued as
\* the second.
C1_Witness ==
    \E i \in DOMAIN last.calls :
        LET call == last.calls[i]
        IN  /\ call.op = "Dequeue" /\ call.err = "" /\ ~prepended[call.queue]
            /\ dequeued[call.queue] = 2
            /\ call.item.src.seq = 2
            /\ call.item.Value = <<"x">>

\* C3: a session that holds an item and sends GET with no sub-command or
\* with open, on any queue name, is answered CLIENT_ERROR Close current item
\* first; nothing is written, it keeps the item it held, and no queue changes.
C3_HoldBlocksGet ==
    [][\A s \in Sessions, input \in Inputs :
          (Holding(s) /\ Sub(input) \in {<<>>, S_open} /\ GetStep(s, input)) =>
              /\ last'.err = "CLIENT_ERROR Close current item first"
              /\ last'.out = <<>>
              /\ queues' = queues
              /\ currentItem' = currentItem
              /\ currentCommand' = currentCommand]_vars

\* The one session that holds an item has just been refused a GET on the other
\* queue, which has an item to give.
C3_Witness ==
    /\ last.op = "get" /\ last.held
    /\ Sub(last.input) \in {<<>>, S_open}
    /\ last.err = "CLIENT_ERROR Close current item first"
    /\ length(queues[Name(last.input)]) > 0
    /\ \E s \in Sessions :
           /\ Holding(s) /\ HeldQueue(s) # Name(last.input)
           /\ \A t \in Sessions \ {s} : Idle(t)

\* C2: a session that ends while it holds an item of queue q leaves the
\* item at the head of q, where the next Dequeue reads it, and
\* q.OpenTransactions one lower.
C2_DisconnectRollback ==
    [][\A s \in Sessions :
          (FinishStep(s) /\ Holding(s)) =>
              LET n == HeldQueue(s)
              IN  /\ queues'[n].OpenTransactions = queues[n].OpenTransactions - 1
                  /\ length(queues'[n]) > 0
                  /\ HeadEntry(queues'[n]) = EntryOf(HeldItem(s))]_vars

\* C4: GET q/open of an idle session.  On a queue that holds items it removes
\* the item at the head, sends it, leaves the session holding it on q and adds
\* one to q.OpenTransactions; on an empty queue it sends END alone, the
\* session stays idle and q.OpenTransactions stays.
C4_OpenTransition ==
    [][\A s \in Sessions, input \in Inputs :
          (Idle(s) /\ Sub(input) = S_open /\ GetStep(s, input)) =>
              LET n == Name(input)
                  q == queues[n]
                  qn == queues'[n]
              IN  IF length(q) > 0
                  THEN /\ qn.head = q.head + 1
                       /\ (q.head + 1) \notin DOMAIN qn.db
                       /\ last'.out = <<ValueFrame(n, HeadEntry(q).value), EndFrame>>
                       /\ currentItem'[s] # <<>>
                       /\ EntryOf(currentItem'[s][1]) = HeadEntry(q)
                       /\ currentCommand'[s] # <<>>
                       /\ currentCommand'[s][1].QueueName = n
                       /\ qn.OpenTransactions = q.OpenTransactions + 1
                  ELSE /\ last'.out = <<EndFrame>>
                       /\ currentItem'[s] = <<>>
                       /\ qn = q]_vars

\* Every entry an Enqueue can have written.
Entries ==
    { [value |-> v, src |-> [name |-> n, seq |-> k, value |-> v]] :
        n \in QueueNames, k \in 1..MaxItems, v \in Values }

\* The entry was enqueued and is neither stored in a queue nor held by a
\* session: it was consumed.
Gone(Q, items, entry) ==
    /\ entry.src.seq <= Q[entry.src.name].tail
    /\ ~Stored(Q, entry)
    /\ ~Held(items, entry)

\* C5: GET q/close of a session that holds an item of q.  The session is left
\* idle, q.OpenTransactions is one lower and nothing else of any queue changes
\* (the item is not put back), the answer is END; and an item that is gone is
\* gone for good, while a GET only ever returns an item that was stored: so no
\* later GET returns the closed item.
C5_Close ==
    [][/\ \A s \in Sessions, input \in Inputs :
              (/\ Holding(s)
               /\ Sub(input) = S_close /\ Name(input) = HeldQueue(s)
               /\ GetStep(s, input)) =>
                  /\ currentItem'[s] = <<>>
                  /\ queues' = [queues EXCEPT ![Name(input)].OpenTransactions = @ - 1]
                  /\ last'.out = <<EndFrame>> /\ last'.err = ""
                  /\ Gone(queues', currentItem', EntryOf(HeldItem(s)))
       /\ \A entry \in Entries :
              Gone(queues, currentItem, entry) => Gone(queues', currentItem', entry)
       /\ \A i \in DOMAIN last'.calls :
              (last'.calls[i].op \in {"Dequeue", "Peek"} /\ last'.calls[i].err = "") =>
                  Stored(queues, EntryOf(last'.calls[i].item))]_vars

\* A session has just closed the first item of a queue that still holds
\* another; nobody holds anything.
C5_Witness ==
    /\ last.op = "get" /\ last.held /\ Sub(last.input) = S_close
    /\ last.out = <<EndFrame>>
    /\ \A s \in Sessions : Idle(s)
    /\ \A n \in QueueNames : queues[n].OpenTransactions = 0 /\ ~prepended[n]
    /\ LET q == queues[Name(last.input)]
       IN  q.head = 1 /\ q.tail = 2 /\ DOMAIN q.db = {2}

\* C6: GET q/abort of a session that holds an item of q leaves the session
\* idle, q.OpenTransactions one lower and the item stored under the key head
\* stood at, with head one lower: the item is the next a Dequeue reads.  And
\* a Prepend of the item a Dequeue returned, right after that Dequeue, gives
\* back the queue as it was.
C6_Abort ==
    [][/\ \A s \in Sessions, input \in Inputs :
              (/\ Holding(s)
               /\ Sub(input) = S_abort /\ Name(input) = HeldQueue(s)
               /\ GetStep(s, input)) =>
                  LET q == queues[Name(input)]
                      qn == queues'[Name(input)]
                  IN  /\ currentItem'[s] = <<>>
                      /\ qn = [q EXCEPT !.OpenTransactions = @ - 1,
                                        !.head = @ - 1,
                                        !.db = Put(@, q.head, EntryOf(HeldItem(s)))]
                      /\ HeadEntry(qn) = EntryOf(HeldItem(s))
       /\ \A n \in QueueNames :
              length(queues[n]) > 0 =>
                  LET d == Dequeue(queues[n], TRUE, TRUE)
                  IN  Prepend(d.q, d.item, TRUE).q = queues[n]]_vars

\* C7: GET q/close/open, with or without a t= token, of a session that holds
\* an item of q, on a q that holds items: the held item is gone, the item at
\* the head of q is sent and is the item the session now holds on q, and
\* q.OpenTransactions is what it was.
C7_CloseOpen ==
    [][\A s \in Sessions, input \in Inputs :
          (/\ Holding(s)
           /\ Sub(input) = S_close_open /\ Name(input) = HeldQueue(s)
           /\ length(queues[Name(input)]) > 0
           /\ GetStep(s, input)) =>
              LET n == Name(input)
                  q == queues[n]
                  qn == queues'[n]
              IN  /\ Gone(queues', currentItem', EntryOf(HeldItem(s)))
                  /\ last'.out = <<ValueFrame(n, HeadEntry(q).value), EndFrame>>
                  /\ currentItem'[s] # <<>>
                  /\ EntryOf(currentItem'[s][1]) = HeadEntry(q)
                  /\ currentCommand'[s][1].QueueName = n
                  /\ qn.head = q.head + 1
                  /\ qn.OpenTransactions = q.OpenTransactions]_vars

\* C8: GET q of an idle session leaves it idle.  On a q that holds items the
\* item at the head is removed and sent as VALUE, then END; on an empty q the
\* answer is END alone; and an answer of END alone leaves q as it was.
C8_DestructiveGet ==
    [][\A s \in Sessions, input \in Inputs :
          (Idle(s) /\ Sub(input) = <<>> /\ GetStep(s, input)) =>
              LET n == Name(input)
                  q == queues[n]
                  qn == queues'[n]
              IN  /\ currentItem'[s] = <<>>
                  /\ IF length(q) > 0
                     THEN /\ qn = [q EXCEPT !.head = @ + 1,
                                            !.db = Delete(@, q.head + 1)]
                          /\ last'.out =
                                 <<ValueFrame(n, HeadEntry(q).value), EndFrame>>
                     ELSE last'.out = <<EndFrame>>
                  /\ (last'.out = <<EndFrame>>) => (qn = q)]_vars

\* C9: GET q/peek, whatever the session holds, changes no queue and no
\* session, and on a q that holds items sends the item stored under head+1.
C9_Peek ==
    [][\A s \in Sessions, input \in Inputs :
          (Sub(input) = S_peek /\ GetStep(s, input)) =>
              LET n == Name(input)
                  q == queues[n]
              IN  /\ queues' = queues
                  /\ currentItem' = currentItem
                  /\ currentCommand' = currentCommand
                  /\ (length(q) > 0) =>
                         (last'.out = <<ValueFrame(n, HeadEntry(q).value), EndFrame>>)
      ]_vars

\* The successful Dequeues on queue n among the calls of a handler.
DequeuedFrom(calls, n) ==
    { calls[i] : i \in Succeeded(calls, "Dequeue", n) }

\* C10: on a queue that only SET, GET and GET open (and close) have worked on,
\* so that nothing was prepended, every Dequeue a session's GET makes returns
\* the item next in the order of the Enqueues, none left out; the item is
\* then stored nowhere and no other session holds it; and the items not yet
\* returned are all in the store, under the keys a Dequeue will read next.
C10_ExactlyOnce ==
    [][\A n \in QueueNames :
          ~prepended'[n] =>
              /\ queues'[n].head = dequeued'[n]
              /\ DOMAIN queues'[n].db = (dequeued'[n] + 1)..queues'[n].tail
              /\ \A s \in Sessions, input \in Inputs :
                     (DequeuedFrom(last'.calls, n) # {} /\ GetStep(s, input)) =>
                         \A call \in DequeuedFrom(last'.calls, n) :
                             LET e == EntryOf(call.item)
                             IN  /\ e.src = [name |-> n, seq |-> dequeued[n] + 1,
                                             value |-> e.value]
                                 /\ dequeued'[n] = dequeued[n] + 1
                                 /\ ~Stored(queues', e)
                                 /\ \A t \in Sessions \ {s} :
                                        /\ ~Held([currentItem EXCEPT ![s] = <<>>], e)
                                        /\ ~Held([currentItem' EXCEPT ![s] = <<>>], e)
      ]_vars

\* Two sessions each hold one of the two items of the same queue: the first
\* took the first item with GET open, the second has just taken the second.
C10_Witness ==
    /\ last.op = "get" /\ Sub(last.input) = S_open
    /\ \E n \in QueueNames :
           /\ Name(last.input) = n /\ ~prepended[n] /\ dequeued[n] = 2
           /\ DequeuedFrom(last.calls, n) # {}
           /\ \E s, t \in Sessions :
                  /\ s # t /\ Holding(s) /\ Holding(t)
                  /\ HeldItem(s).src = [name |-> n, seq |-> 1, value |-> <<"x">>]
                  /\ HeldItem(t).src = [name |-> n, seq |-> 2, value |-> <<"x">>]

\* The sessions that hold an item they opened on queue n.
Holders(n) == { s \in Sessions : Holding(s) /\ HeldQueue(s) = n }

\* C11: at every moment, for every queue, OpenTransactions is the number of
\* sessions that hold an item taken from that queue; and it is 0 when no
\* session is connected.
C11_ReservationCount ==
    /\ \A n \in QueueNames :
           queues[n].OpenTransactions = Cardinality(Holders(n))
    /\ (\A s \in Sessions : ~connected[s]) =>
           \A n \in QueueNames : queues[n].OpenTransactions = 0

(***************************************************************************)
(* The queue on its own: Enqueue, Dequeue, Prepend and reopen called on    *)
(* the queues directly, as the queue's tests do, each store operation      *)
(* succeeding or failing.  No session is connected.                        *)
(***************************************************************************)
\* Every store operation succeeds, or one kind of them fails.
PutFails == [put |-> FALSE, get |-> TRUE, del |-> TRUE]

GetFails == [put |-> TRUE, get |-> FALSE, del |-> TRUE]

DelFails == [put |-> TRUE, get |-> TRUE, del |-> FALSE]

IOs == {AllOk, PutFails, GetFails, DelFails}

\* q.Enqueue(value)
QueueEnqueue(n, value, io) ==
    /\ Enqueued < MaxItems
    /\ \E e \in {Enqueue(queues[n], n, value, io.put)} :
           /\ queues' = [queues EXCEPT ![n] = e.q]
           /\ last' = [NoCommand EXCEPT !.op = "Enqueue", !.input = <<n, value>>,
                                        !.err = e.err]
    /\ UNCHANGED <<connected, currentItem, currentCommand, dequeued, prepended,
                   flushes>>

\* q.Dequeue()
QueueDequeue(n, io) ==
    /\ \E d \in {Dequeue(queues[n], io.get, io.del)} :
           /\ queues' = [queues EXCEPT ![n] = d.q]
           /\ last' = [NoCommand EXCEPT !.op = "Dequeue", !.input = <<n>>,
                                        !.calls = <<Call("Dequeue", n, d.item, d.err)>>,
                                        !.err = d.err]
    /\ UNCHANGED <<connected, currentItem, currentCommand, dequeued, prepended,
                   flushes>>

\* q.Prepend(&Item{Value: value})
QueuePrepend(n, value, io) ==
    /\ \E p \in {Prepend(queues[n], [ZeroItem EXCEPT !.Value = value], io.put)} :
           /\ queues' = [queues EXCEPT ![n] = p.q]
           /\ last' = [NoCommand EXCEPT !.op = "Prepend", !.input = <<n, value>>,
                                        !.err = p.err]
    /\ UNCHANGED <<connected, currentItem, currentCommand, dequeued, prepended,
                   flushes>>

\* q.Close(), then Open(name, dataDir) again.
QueueReopen(n) ==
    /\ queues' = [queues EXCEPT ![n] = Reopen(@)]
    /\ last' = [NoCommand EXCEPT !.op = "Reopen", !.input = <<n>>]
    /\ UNCHANGED <<connected, currentItem, currentCommand, dequeued, prepended,
                   flushes>>

NextQueue ==
    \/ \E n \in QueueNames, v \in Values, io \in IOs : QueueEnqueue(n, v, io)
    \/ \E n \in QueueNames, io \in IOs : QueueDequeue(n, io)
    \/ \E n \in QueueNames, v \in Values, io \in IOs : QueuePrepend(n, v, io)
    \/ \E n \in QueueNames : QueueReopen(n)

SpecQueue == Init /\ [][NextQueue]_vars

\* The values q gives up when it is dequeued until Dequeue returns an error.
RECURSIVE Drain(_)
Drain(q) ==
    LET d == Dequeue(q, TRUE, TRUE)
    IN  IF d.err # "" THEN <<>> ELSE <<d.item.Value>> \o Drain(d.q)

\* C12: whatever Enqueue, Dequeue, Prepend and earlier reopens made of a
\* queue, closing it and opening it again on the same store gives a queue of
\* the same Length() that gives up the same values in the same order.
C12_Reopen ==
    \A n \in QueueNames :
        LET q == queues[n]
            r == Reopen(q)
        IN  /\ length(r) = length(q)
            /\ Drain(r) = Drain(q)

\* A queue was just reopened on a store whose first key is not 1: an item
\* was dequeued before, and one is still stored.
C12_Witness ==
    /\ last.op = "Reopen"
    /\ LET q == queues[last.input[1]]
       IN  q.head = 1 /\ q.tail = 2 /\ Drain(q) = <<<<"x">>>>

(***************************************************************************)
(* The parser on its own: parseGetCommand applied to GET arguments of the  *)
(* form q(/tok)*.                                                          *)
(***************************************************************************)
\* The tokens: the four sub-command words and two timeouts.
Tokens == {S_open, S_close, S_abort, S_peek, S_timeout, <<"t", "=", "7">>}

IsTimeout(tok) == Len(tok) >= 3 /\ tok[1] = "t" /\ tok[2] = "="

\* Queue names, one of them with the letter the timeout begins with.
ParseNames == QueueNames \cup {<<"t", "1">>}

TokenSeqs == UNION { [1..k -> Tokens] : k \in 0..MaxTokens }

\* q/tok/tok...
RECURSIVE Argument(_, _)
Argument(q, toks) ==
    IF toks = <<>> THEN q
    ELSE Argument(q \o <<"/">> \o Head(toks), Tail(toks))

\* The tokens joined by slashes.
RECURSIVE Join(_)
Join(toks) ==
    IF toks = <<>> THEN <<>>
    ELSE IF Len(toks) = 1 THEN toks[1]
    ELSE toks[1] \o <<"/">> \o Join(Tail(toks))

\* parseGetCommand([]string{"get", arg}), once; out holds the command
\* returned, q and toks what the argument was made of.
Parse(q, toks) ==
    /\ last = NoCommand
    /\ last' = [op |-> "parse", input |-> <<GET, Argument(q, toks)>>,
                held |-> FALSE,
                out |-> <<parseGetCommand(<<GET, Argument(q, toks)>>)>>,
                calls |-> <<>>, err |-> "", q |-> q, toks |-> toks]
    /\ UNCHANGED <<queues, connected, currentItem, currentCommand, dequeued,
                   prepended, flushes>>

NextParse == \E q \in ParseNames, toks \in TokenSeqs : Parse(q, toks)

SpecParse == Init /\ [][NextParse]_vars

\* C13: for an argument q(/tok)*, each tok a timeout or one of open, close,
\* abort, peek, the command parsed has QueueName q and SubCommand the
\* non-timeout tokens, in their order, joined by slashes.
C13_Parser ==
    last.op = "parse" =>
        /\ last.out[1].QueueName = last.q
        /\ last.out[1].SubCommand =
               Join(SelectSeq(last.toks, LAMBDA tok : ~IsTimeout(tok)))

\* The argument parsed was q/close/t=10/open: a timeout between two words.
C13_Witness ==
    /\ last.op = "parse"
    /\ last.q = <<"a">> /\ last.toks = <<S_close, S_timeout, S_open>>
    /\ last.input[2] = <<"a", "/">> \o S_close \o <<"/">> \o S_timeout \o <<"/">> \o S_open
    /\ last.out[1].SubCommand = S_close_open

(***************************************************************************)
(* The controller over a store whose operations can fail: a command runs   *)
(* with all store operations succeeding or with one kind failing.  A run   *)
(* is followed up to the first command during which the store failed.      *)
(***************************************************************************)
\* The store failed inside a queue operation the handler called.
StoreFailed(calls) == \E i \in DOMAIN calls : calls[i].err = "leveldb"

\* The store has not failed so far.
Healthy == ~StoreFailed(last.calls) /\ last.err # "leveldb"

HealthyNewSession(s) == Healthy /\ NewSession(s)

HealthySet(n, value, io) == Healthy /\ Set(n, value, io)

HealthyGet(s, input, io) == Healthy /\ Get(s, input, io)

HealthyFinishSession(s, io) == Healthy /\ FinishSession(s, io)

NextFault ==
    \/ \E s \in Sessions : HealthyNewSession(s)
    \/ \E n \in QueueNames, v \in Values, io \in IOs : HealthySet(n, v, io)
    \/ \E s \in Sessions, input \in Inputs, io \in IOs : HealthyGet(s, input, io)
    \/ \E s \in Sessions, io \in IOs : HealthyFinishSession(s, io)

SpecFault == Init /\ [][NextFault]_vars

\* C14: a GET command during which a store operation failed (the Get or the
\* Delete of Dequeue, the Get of Peek, the Put of Prepend) returns
\* SERVER_ERROR and writes no VALUE and no END.
C14_StoreErrors ==
    (last.op = "get" /\ StoreFailed(last.calls)) =>
        (last.err = "SERVER_ERROR leveldb" /\ last.out = <<>>)

\* C15: in every state that Open, Enqueue, Dequeue, Prepend and reopen reach,
\* for every queue, head <= tail, the store holds exactly the keys
\* head+1..tail (tail - head of them, the key head not among them), and a
\* Prepend that succeeds leaves what is stored under those keys as it is.
C15_DenseKeys ==
    \A n \in QueueNames :
        LET q == queues[n]
        IN  /\ q.head <= q.tail
            /\ DOMAIN q.db = (q.head + 1)..q.tail
            /\ Cardinality(DOMAIN q.db) = length(q)
            /\ q.head \notin DOMAIN q.db
            /\ \A v \in Values :
                   LET p == Prepend(q, [ZeroItem EXCEPT !.Value = v], TRUE)
                   IN  p.err = "" =>
                           /\ DOMAIN p.q.db = (DOMAIN q.db) \cup {q.head}
                           /\ \A k \in DOMAIN q.db : p.q.db[k] = q.db[k]

\* An item was just prepended to a queue that held one: both are stored.
C15_Witness ==
    /\ last.op = "Prepend" /\ last.err = ""
    /\ LET q == queues[last.input[1]]
       IN  q.head = 0 /\ q.tail = 2 /\ DOMAIN q.db = {1, 2}

\* head and tail of every queue are what they were.
SameCounters ==
    \A n \in QueueNames :
        queues'[n].head = queues[n].head /\ queues'[n].tail = queues[n].tail

\* C16: an Enqueue whose Put fails, a Dequeue whose Get or Delete fails and a
\* Prepend whose Put fails return the error and leave head and tail as they
\* were; and an operation that moved head or tail returned no error.
C16_CountersFollowStore ==
    [][/\ \A n \in QueueNames, v \in Values :
              QueueEnqueue(n, v, PutFails) =>
                  (last'.err = "leveldb" /\ SameCounters)
       /\ \A n \in QueueNames, io \in {GetFails, DelFails} :
              (length(queues[n]) >= 1 /\ QueueDequeue(n, io)) =>
                  (last'.err = "leveldb" /\ SameCounters)
       /\ \A n \in QueueNames, v \in Values :
              (queues[n].head >= 1 /\ QueuePrepend(n, v, PutFails)) =>
                  (last'.err = "leveldb" /\ SameCounters)
       /\ (last'.op \in {"Enqueue", "Dequeue", "Prepend"} /\ ~SameCounters) =>
              last'.err = ""]_vars

\* An Enqueue has just failed on a queue that holds an item enqueued before.
C16_Witness ==
    /\ last.op = "Enqueue" /\ last.err = "leveldb"
    /\ LET q == queues[last.input[1]]
       IN  q.head = 0 /\ q.tail = 1 /\ DOMAIN q.db = {1}

\* C17: a Prepend on a queue whose head is 0 returns an error and leaves
\* every queue, head, tail and store, as it was.
C17_PrependAtZero ==
    [][\A n \in QueueNames, v \in Values, io \in IOs :
          (queues[n].head = 0 /\ QueuePrepend(n, v, io)) =>
              /\ last'.err = "Queue head can not be less then zero"
              /\ queues' = queues]_vars

\* A Prepend was just refused on a queue with head 0 that holds an item.
C17_Witness ==
    /\ last.op = "Prepend"
    /\ last.err = "Queue head can not be less then zero"
    /\ LET q == queues[last.input[1]]
       IN  q.head = 0 /\ q.tail = 1 /\ DOMAIN q.db = {1}

\* The sub-commands the switch of Get knows.
Recognized == {<<>>, S_open, S_close, S_close_open, S_abort, S_peek}

\* C18: a GET whose sub-command, timeouts removed, is none of "", open,
\* close, close/open, abort, peek returns an error, writes nothing (no END)
\* and changes no queue and no session's reservation.
C18_Unrecognized ==
    [][\A s \in Sessions, input \in Inputs :
          (Sub(input) \notin Recognized /\ GetStep(s, input)) =>
              /\ last'.err = "ERROR Invalid command"
              /\ last'.out = <<>>
              /\ queues' = queues
              /\ currentItem' = currentItem
              /\ currentCommand' = currentCommand]_vars

\* GET a/open/close was just refused: the session that sent it still holds
\* its item, and the queue it named still holds one.
C18_Witness ==
    /\ last.op = "get" /\ Sub(last.input) = S_open_close
    /\ last.err = "ERROR Invalid command" /\ last.held
    /\ \E s \in Sessions : Holding(s) /\ HeldQueue(s) = Name(last.input)
    /\ length(queues[Name(last.input)]) = 1

(***************************************************************************)
(* Flush                                                                   *)
(***************************************************************************)
\* repo.FlushQueue(n): the queue is dropped and opened again on an empty
\* store, so head = tail = 0 and no transaction is open; what the sessions
\* hold is left as it is.
FlushQueue(n) ==
    /\ flushes < MaxFlushes
    /\ flushes' = flushes + 1
    /\ queues' = [queues EXCEPT ![n] = Open]
    /\ last' = [NoCommand EXCEPT !.op = "flush", !.input = <<n>>]
    /\ dequeued' = [dequeued EXCEPT ![n] = 0]
    /\ prepended' = [prepended EXCEPT ![n] = FALSE]
    /\ UNCHANGED <<connected, currentItem, currentCommand>>

\* The commands sent around a flush: GET q, GET q/open and GET q/abort.
FlushInputs ==
    { <<GET, a>> :
        a \in UNION { {n, n \o <<"/">> \o S_open, n \o <<"/">> \o S_abort} :
                        n \in QueueNames } }

NextFlush ==
    \/ \E s \in Sessions : NewSession(s)
    \/ \E n \in QueueNames, v \in Values : Set(n, v, AllOk)
    \/ \E s \in Sessions, input \in FlushInputs : Get(s, input, AllOk)
    \/ \E s \in Sessions : FinishSession(s, AllOk)
    \/ \E n \in QueueNames : FlushQueue(n)

SpecFlush == Init /\ [][NextFlush]_vars

\* Session s holds an item of a queue that was flushed since and is still as
\* the flush left it: head = tail = 0.  (A session comes to hold an item of a
\* queue only when the queue's tail is above 0, and only a flush lowers tail.)
HoldsFlushed(s) ==
    connected[s] /\ Holding(s) /\ queues[HeldQueue(s)].tail = 0

HeadLessThenZero == "Queue head can not be less then zero"

\* The rollback of session s: the Prepend of its item on the queue of its open.
Rollback(s, err) == <<Call("Prepend", HeldQueue(s), HeldItem(s), err)>>

\* C19 as stated: the rollback Prepend of an item held over a flush, at
\* GET q/abort or at disconnect, succeeds on the reopened empty queue and
\* the session's reservation is released.
C19_RollbackSucceeds ==
    [][\A s \in Sessions :
          HoldsFlushed(s) =>
              /\ \A input \in FlushInputs :
                     (/\ Sub(input) = S_abort /\ Name(input) = HeldQueue(s)
                      /\ GetStep(s, input)) =>
                         /\ last'.calls = Rollback(s, "")
                         /\ last'.err = ""
                         /\ currentItem'[s] = <<>>
              /\ FinishStep(s) =>
                     /\ last'.calls = Rollback(s, "")
                     /\ currentItem'[s] = <<>>
      ]_vars

\* C19, amended: the rollback Prepend of an item held over a flush fails on
\* the reopened empty queue, whose head is 0.  GET q/abort answers
\* SERVER_ERROR with Prepend's error and the session goes on holding the item;
\* at disconnect the error goes unreported, the item is dropped with the
\* session and the queue stays empty.
C19_RollbackFails ==
    [][\A s \in Sessions :
          HoldsFlushed(s) =>
              /\ \A input \in FlushInputs :
                     (/\ Sub(input) = S_abort /\ Name(input) = HeldQueue(s)
                      /\ GetStep(s, input)) =>
                         /\ last'.calls = Rollback(s, HeadLessThenZero)
                         /\ last'.err = "SERVER_ERROR " \o HeadLessThenZero
                         /\ last'.out = <<>>
                         /\ currentItem'[s] = currentItem[s]
                         /\ currentCommand'[s] = currentCommand[s]
                         /\ queues' = queues
              /\ FinishStep(s) =>
                     /\ last'.calls = Rollback(s, HeadLessThenZero)
                     /\ currentItem'[s] = <<>>
                     /\ queues' = queues
                     /\ length(queues'[HeldQueue(s)]) = 0
      ]_vars

\* A session holding an item of a flushed, still empty queue has just been
\* refused GET q/abort.
C19_Witness ==
    /\ flushes = 1
    /\ last.op = "get" /\ last.held /\ last.err # ""
    /\ Sub(last.input) = S_abort
    /\ \E s \in Sessions :
           /\ HoldsFlushed(s)
           /\ Name(last.input) = HeldQueue(s)
           /\ last.calls = Rollback(s, HeadLessThenZero)

\* A session that held an item of a flushed, still empty queue has just
\* disconnected, and the queue is empty.
C19_DisconnectWitness ==
    /\ flushes = 1
    /\ last.op = "finish" /\ last.held
    /\ \E n \in QueueNames :
           /\ queues[n].tail = 0
           /\ Len(last.calls) = 1
           /\ last.calls[1].queue = n
           /\ last.calls[1].err = HeadLessThenZero
           /\ queues[n].db = <<>>

(***************************************************************************)
(* Conservation                                                            *)
(***************************************************************************)
\* In how many places the entry is: keys of the queues' stores and sessions
\* holding it.
Places(Q, items, entry) ==
    Cardinality({ nk \in QueueNames \X (1..MaxItems) :
                    /\ nk[2] \in DOMAIN Q[nk[1]].db
                    /\ Q[nk[1]].db[nk[2]] = entry })
    + Cardinality({ s \in Sessions :
                      items[s] # <<>> /\ EntryOf(items[s][1]) = entry })

\* The step consumes the entry: a GET without sub-command dequeues it, or the
\* session holding it closes it (close, close/open).
Consumed(entry) ==
    /\ last'.op = "get"
    /\ \/ /\ Sub(last'.input) = <<>>
          /\ \E call \in DequeuedFrom(last'.calls, Name(last'.input)) :
                 EntryOf(call.item) = entry
       \/ /\ Sub(last'.input) \in {S_close, S_close_open}
          /\ \E s \in Sessions :
                 /\ Holding(s) /\ EntryOf(HeldItem(s)) = entry
                 /\ currentItem'[s] # currentItem[s]

\* C20: item conservation on a queue n, the other queues never used.  What a
\* SET enqueues is stored; an item is never in two places (two keys, two
\* sessions, a key and a session); and an item that is in no place any more
\* was consumed by the step that took it away, a GET without sub-command or
\* the close of the session holding it.
C20_Conservation ==
    [][\A n \in QueueNames :
          (\A m \in QueueNames \ {n} : queues'[m] = Open) =>
              /\ \A v \in Values :
                     (/\ last'.op = "set" /\ last'.input = <<n, v>>
                      /\ last'.err = "") =>
                         Places(queues', currentItem',
                                [value |-> v,
                                 src |-> [name |-> n, seq |-> queues'[n].tail,
                                          value |-> v]]) = 1
              /\ \A entry \in Entries :
                     entry.src.name = n =>
                         /\ Places(queues', currentItem', entry) <= 1
                         /\ (/\ Places(queues, currentItem, entry) = 1
                             /\ Places(queues', currentItem', entry) = 0) =>
                                Consumed(entry)
      ]_vars

(***************************************************************************)
(* Reservations and their queues                                           *)
(***************************************************************************)
\* C21: a reservation is bound to its queue.  When a session holding an item
\* of q sends GET q'/close or GET q'/abort with q' # q, q' is left as it was
\* (head, tail, store, OpenTransactions), and no Prepend is made on q'.
C21_BoundToQueue ==
    [][\A s \in Sessions, input \in Inputs :
          (/\ connected[s] /\ Holding(s)
           /\ Sub(input) \in {S_close, S_abort}
           /\ Name(input) # HeldQueue(s)
           /\ GetStep(s, input)) =>
              /\ queues'[Name(input)] = queues[Name(input)]
              /\ \A i \in DOMAIN last'.calls :
                     last'.calls[i].op = "Prepend" =>
                         last'.calls[i].queue = HeldQueue(s)
      ]_vars

\* The step is a GET q/abort of session s, holding an item, whose Prepend
\* failed: the store's Put failed, or the head of q was 0.
FailedAbort(s, input) ==
    /\ connected[s] /\ Holding(s)
    /\ Sub(input) = S_abort
    /\ last'.op = "get" /\ last'.input = input
    /\ Len(last'.calls) = 1
    /\ last'.calls[1].op = "Prepend" /\ last'.calls[1].err # ""
    /\ last'.calls[1].item = HeldItem(s)
    /\ \E io \in IOs : Get(s, input, io)

\* C22: a GET q/abort whose Prepend fails, on a store error or on head = 0,
\* returns SERVER_ERROR with Prepend's error and writes nothing; the session
\* holds the same item under the same command as before, and no queue has
\* changed: head, tail, store and OpenTransactions of q are as they were.
C22_FailedAbort ==
    [][\A s \in Sessions, input \in Inputs :
          FailedAbort(s, input) =>
              /\ last'.calls[1].queue = Name(input)
              /\ last'.calls[1].err \in {"leveldb", HeadLessThenZero}
              /\ last'.err = "SERVER_ERROR " \o last'.calls[1].err
              /\ last'.out = <<>>
              /\ currentItem'[s] = currentItem[s]
              /\ currentCommand'[s] = currentCommand[s]
              /\ queues' = queues
      ]_vars

\* A session holding an item has just been refused GET q/abort because the
\* store's Put failed, on a queue whose head is above 0.
C22_Witness ==
    /\ last.op = "get" /\ last.held
    /\ Sub(last.input) = S_abort
    /\ last.calls # <<>> /\ last.calls[1].err = "leveldb"
    /\ last.err = "SERVER_ERROR leveldb"
    /\ queues[Name(last.input)].head > 0
    /\ \E s \in Sessions :
           /\ connected[s] /\ Holding(s)
           /\ HeldQueue(s) = Name(last.input)
           /\ HeldItem(s) = last.calls[1].item

\* A session holding an item has just been refused GET q/abort because the
\* head of q is 0.
C22_HeadZeroWitness ==
    /\ last.op = "get" /\ last.held
    /\ Sub(last.input) = S_abort
    /\ last.calls # <<>> /\ last.calls[1].err = HeadLessThenZero
    /\ queues[Name(last.input)].head = 0
    /\ \E s \in Sessions :
           /\ connected[s] /\ Holding(s)
           /\ HeldItem(s) = last.calls[1].item

\* C23: order after rollbacks, on a queue n that is the only one used.  Of
\* two items of n that are both in its store, the one enqueued first is
\* under the lower key, so that Dequeue delivers it first: whatever was
\* rolled back, by abort or at disconnect and in whatever order, is back in
\* the order of the Enqueues.
C23_RollbackOrder ==
    \A n \in QueueNames :
        (\A m \in QueueNames \ {n} : queues[m] = Open) =>
            \A k1, k2 \in DOMAIN queues[n].db :
                (/\ k1 < k2
                 /\ queues[n].db[k1].src.name = n
                 /\ queues[n].db[k2].src.name = n) =>
                    queues[n].db[k1].src.seq < queues[n].db[k2].src.seq

=============================================================================
